---- MODULE Spec2Model ----
(***************************************************************************)
(* The account ledger of src/domain/src/lib.rs: Accounts::add_transaction  *)
(* replays deposits, withdrawals, disputes, resolves and chargebacks on    *)
(* per-client accounts.  Amounts are rust_decimal Decimals; they are       *)
(* modelled as exact integers; Spec replays the amounts of the unit tests,  *)
(* SpecTotal amounts near Decimal::MAX, whose sums overflow and panic.      *)
(***************************************************************************)
EXTENDS Integers, Sequences, FiniteSets, TLC

\* ---- bounds of the model ----
MaxClient == 2
MaxTx == 3
\* the number of add_transaction calls replayed (records of the input file)
MaxSteps == 4
\* the number of calls replayed next to the per-client ledgers (SpecSolo)
MaxSoloSteps == 3

Clients == 1..MaxClient
TxIds == 1..MaxTx
\* the deposit and withdrawal amounts fed to the ledger (those of the unit tests)
Amounts == {100, 1000, 1500}

\* Decimal::MAX = 79228162514264337593543950335 (96-bit mantissa), counted in
\* units of 10^20: a Decimal n * 10^20 of scale 0 is representable exactly
\* when -792281625 <= n <= 792281625
DecimalMaxUnits == 792281625

\* amounts that are multiples of 10^20, counted in that unit: 10^20 and
\* 79228162500000000000000000000, the greatest such Decimal
BigAmounts == {1, DecimalMaxUnits}

VARIABLES user_accounts, transaction_ids, steps, trace, panicked, solo

vars == <<user_accounts, transaction_ids, steps, trace, panicked, solo>>

\* ---- enum Transaction ----
Deposit(amount) == [kind |-> "Deposit", amount |-> amount]
Withdrawal(amount) == [kind |-> "Withdrawal", amount |-> amount]
Dispute == [kind |-> "Dispute"]
Resolve == [kind |-> "Resolve"]
Chargeback == [kind |-> "Chargeback"]

\* ---- enum TransactionState ----
TransactionState == {"Resolve", "Dispute", "Chargeback"}

\* ---- struct TransactionLog { amount: TransactionActionState, state } ----
TransactionLog(amount, state) == [amount |-> amount, state |-> state]

\* the empty HashMap
EmptyMap == [x \in {} |-> 0]

\* HashMap::insert(k, v): adds the key or overwrites its value
MapInsert(m, k, v) == [x \in (DOMAIN m) \cup {k} |-> IF x = k THEN v ELSE m[x]]

\* Option::None
None == [none |-> TRUE]

\* a UserAccount::new that opens an account for any first transaction
UserAccount_new_any(tx, transaction) ==
  IF transaction.kind = "Deposit"
  THEN [available |-> transaction.amount,
        held |-> 0,
        locked |-> FALSE,
        transaction_log |->
          MapInsert(EmptyMap, tx, TransactionLog(Deposit(transaction.amount), "Resolve"))]
  ELSE [available |-> 0, held |-> 0, locked |-> FALSE, transaction_log |-> EmptyMap]

\* ---- UserAccount::new ----
UserAccount_new(tx, transaction) ==
  IF transaction.kind = "Deposit"
  THEN [available |-> transaction.amount,
        held |-> 0,
        locked |-> FALSE,
        transaction_log |->
          MapInsert(EmptyMap, tx, TransactionLog(Deposit(transaction.amount), "Resolve"))]
  ELSE None

\* a withdrawal that debits the account without logging the transaction
withdrawal_unlogged(self, amount, tx) ==
  IF self.available >= amount
  THEN [self EXCEPT !.available = self.available - amount]
  ELSE self

\* a withdrawal without the funds check
withdrawal_unchecked(self, amount, tx) ==
  [self EXCEPT
     !.transaction_log =
        MapInsert(self.transaction_log, tx, TransactionLog(Withdrawal(amount), "Resolve")),
     !.available = self.available - amount]

\* a withdrawal that checks the total funds, held ones included
withdrawal_total(self, amount, tx) ==
  IF self.available + self.held >= amount
  THEN [self EXCEPT
          !.transaction_log =
             MapInsert(self.transaction_log, tx, TransactionLog(Withdrawal(amount), "Resolve")),
          !.available = self.available - amount]
  ELSE self

\* a withdrawal that logs the transaction before it checks the funds
withdrawal_logged_first(self, amount, tx) ==
  LET logged == [self EXCEPT
                   !.transaction_log =
                      MapInsert(self.transaction_log, tx,
                                TransactionLog(Withdrawal(amount), "Resolve"))]
  IN IF self.available >= amount
     THEN [logged EXCEPT !.available = self.available - amount]
     ELSE logged

\* ---- UserAccount::withdrawal ----
withdrawal(self, amount, tx) ==
  IF self.available >= amount
  THEN [self EXCEPT
          !.transaction_log =
             MapInsert(self.transaction_log, tx, TransactionLog(Withdrawal(amount), "Resolve")),
          !.available = self.available - amount]
  ELSE self

\* ---- UserAccount::change_account_state, Transaction::Deposit arm ----
change_Deposit(self, tx, amount) ==
  [self EXCEPT
     !.transaction_log =
        MapInsert(self.transaction_log, tx, TransactionLog(Deposit(amount), "Resolve")),
     !.available = self.available + amount]

\* a Dispute arm that debits available for a withdrawal as it does for a deposit
change_Dispute_debit(self, tx) ==
  IF tx \in DOMAIN self.transaction_log /\ self.transaction_log[tx].state = "Resolve"
  THEN LET x == self.transaction_log[tx]
           amount == x.amount.amount
       IN [self EXCEPT
             !.transaction_log[tx] = TransactionLog(x.amount, "Dispute"),
             !.available = self.available - amount,
             !.held = self.held + amount]
  ELSE self

\* a Dispute arm without the check that the entry is in Resolve state
change_Dispute_any_state(self, tx) ==
  IF tx \in DOMAIN self.transaction_log
  THEN LET x == self.transaction_log[tx]
           amount == x.amount.amount
       IN IF x.amount.kind = "Deposit"
          THEN [self EXCEPT
                  !.transaction_log[tx] = TransactionLog(Deposit(amount), "Dispute"),
                  !.available = self.available - amount,
                  !.held = self.held + amount]
          ELSE [self EXCEPT
                  !.transaction_log[tx] = TransactionLog(Withdrawal(amount), "Dispute"),
                  !.held = self.held + amount]
  ELSE self

\* ---- UserAccount::change_account_state, Transaction::Dispute arm ----
change_Dispute(self, tx) ==
  IF tx \in DOMAIN self.transaction_log /\ self.transaction_log[tx].state = "Resolve"
  THEN LET x == self.transaction_log[tx]
           amount == x.amount.amount
       IN IF x.amount.kind = "Deposit"
          THEN [self EXCEPT
                  !.transaction_log[tx] = TransactionLog(Deposit(amount), "Dispute"),
                  !.available = self.available - amount,
                  !.held = self.held + amount]
          ELSE [self EXCEPT
                  !.transaction_log[tx] = TransactionLog(Withdrawal(amount), "Dispute"),
                  !.held = self.held + amount]
  ELSE self

\* a Resolve arm that credits available for a withdrawal as it does for a deposit
change_Resolve_credit(self, tx) ==
  IF tx \in DOMAIN self.transaction_log /\ self.transaction_log[tx].state = "Dispute"
  THEN LET x == self.transaction_log[tx]
           amount == x.amount.amount
       IN [self EXCEPT
             !.transaction_log[tx] = TransactionLog(x.amount, "Resolve"),
             !.available = self.available + amount,
             !.held = self.held - amount]
  ELSE self

\* a Resolve arm that releases held for a deposit only
change_Resolve_held_kept(self, tx) ==
  IF tx \in DOMAIN self.transaction_log /\ self.transaction_log[tx].state = "Dispute"
  THEN LET x == self.transaction_log[tx]
           amount == x.amount.amount
       IN IF x.amount.kind = "Deposit"
          THEN [self EXCEPT
                  !.transaction_log[tx] = TransactionLog(Deposit(amount), "Resolve"),
                  !.available = self.available + amount,
                  !.held = self.held - amount]
          ELSE [self EXCEPT
                  !.transaction_log[tx] = TransactionLog(Withdrawal(amount), "Resolve")]
  ELSE self

\* ---- UserAccount::change_account_state, Transaction::Resolve arm ----
change_Resolve(self, tx) ==
  IF tx \in DOMAIN self.transaction_log /\ self.transaction_log[tx].state = "Dispute"
  THEN LET x == self.transaction_log[tx]
           amount == x.amount.amount
       IN IF x.amount.kind = "Deposit"
          THEN [self EXCEPT
                  !.transaction_log[tx] = TransactionLog(Deposit(amount), "Resolve"),
                  !.available = self.available + amount,
                  !.held = self.held - amount]
          ELSE [self EXCEPT
                  !.transaction_log[tx] = TransactionLog(Withdrawal(amount), "Resolve"),
                  !.held = self.held - amount]
  ELSE self

\* a Chargeback arm that reverses a charged-back withdrawal into available
change_Chargeback_refund(self, tx) ==
  IF tx \in DOMAIN self.transaction_log /\ self.transaction_log[tx].state = "Dispute"
  THEN LET x == self.transaction_log[tx]
           amount == x.amount.amount
       IN IF x.amount.kind = "Deposit"
          THEN [self EXCEPT
                  !.transaction_log[tx] = TransactionLog(Deposit(amount), "Chargeback"),
                  !.held = self.held - amount,
                  !.locked = TRUE]
          ELSE [self EXCEPT
                  !.transaction_log[tx] = TransactionLog(Withdrawal(amount), "Chargeback"),
                  !.held = self.held - amount,
                  !.available = self.available + amount,
                  !.locked = TRUE]
  ELSE self

\* a Chargeback arm without the check that the entry is under dispute
change_Chargeback_any_state(self, tx) ==
  IF tx \in DOMAIN self.transaction_log
  THEN LET x == self.transaction_log[tx]
           amount == x.amount.amount
       IN [self EXCEPT
             !.transaction_log[tx] = TransactionLog(x.amount, "Chargeback"),
             !.held = self.held - amount,
             !.locked = TRUE]
  ELSE self

\* ---- UserAccount::change_account_state, Transaction::Chargeback arm ----
change_Chargeback(self, tx) ==
  IF tx \in DOMAIN self.transaction_log /\ self.transaction_log[tx].state = "Dispute"
  THEN LET x == self.transaction_log[tx]
           amount == x.amount.amount
       IN IF x.amount.kind = "Deposit"
          THEN [self EXCEPT
                  !.transaction_log[tx] = TransactionLog(Deposit(amount), "Chargeback"),
                  !.held = self.held - amount,
                  !.locked = TRUE]
          ELSE [self EXCEPT
                  !.transaction_log[tx] = TransactionLog(Withdrawal(amount), "Chargeback"),
                  !.held = self.held - amount,
                  !.locked = TRUE]
  ELSE self

\* a change_account_state without the locked guard
IsLocked_never(self) == FALSE

\* ---- the locked guard of UserAccount::change_account_state ----
IsLocked(self) == self.locked

\* a change_account_state whose locked guard lets a Chargeback through
change_account_state_chargeback_unguarded(self, tx, transaction) ==
  IF IsLocked(self) /\ transaction.kind # "Chargeback" THEN self
  ELSE CASE transaction.kind = "Deposit" -> change_Deposit(self, tx, transaction.amount)
         [] transaction.kind = "Dispute" -> change_Dispute(self, tx)
         [] transaction.kind = "Resolve" -> change_Resolve(self, tx)
         [] transaction.kind = "Chargeback" -> change_Chargeback(self, tx)
         [] transaction.kind = "Withdrawal" -> withdrawal(self, transaction.amount, tx)

\* ---- UserAccount::change_account_state ----
change_account_state(self, tx, transaction) ==
  IF IsLocked(self) THEN self
  ELSE CASE transaction.kind = "Deposit" -> change_Deposit(self, tx, transaction.amount)
         [] transaction.kind = "Dispute" -> change_Dispute(self, tx)
         [] transaction.kind = "Resolve" -> change_Resolve(self, tx)
         [] transaction.kind = "Chargeback" -> change_Chargeback(self, tx)
         [] transaction.kind = "Withdrawal" -> withdrawal(self, transaction.amount, tx)

\* rust_decimal's Add and Sub for Decimal panic ("Addition overflowed",
\* "Subtraction overflowed") when the result is not representable
Overflows(x) == x > DecimalMaxUnits \/ x < 0 - DecimalMaxUnits

\* ---- UserAccount::change_account_state: one of its + or - panics ----
change_account_state_panics(self, tx, transaction) ==
  LET has(state) ==
        tx \in DOMAIN self.transaction_log /\ self.transaction_log[tx].state = state
      x == self.transaction_log[tx]
      amount == x.amount.amount
  IN /\ ~IsLocked(self)
     /\ CASE transaction.kind = "Deposit" ->
               Overflows(self.available + transaction.amount)
          [] transaction.kind = "Dispute" ->
               /\ has("Resolve")
               /\ IF x.amount.kind = "Deposit"
                  THEN Overflows(self.available - amount) \/ Overflows(self.held + amount)
                  ELSE Overflows(self.held + amount)
          [] transaction.kind = "Resolve" ->
               /\ has("Dispute")
               /\ IF x.amount.kind = "Deposit"
                  THEN Overflows(self.available + amount) \/ Overflows(self.held - amount)
                  ELSE Overflows(self.held - amount)
          [] transaction.kind = "Chargeback" ->
               has("Dispute") /\ Overflows(self.held - amount)
          [] transaction.kind = "Withdrawal" ->
               /\ self.available >= transaction.amount
               /\ Overflows(self.available - transaction.amount)

\* ---- struct Accounts { user_accounts, transaction_ids } ----
Accounts(ua, ids) == [user_accounts |-> ua, transaction_ids |-> ids]

\* ---- Accounts::new ----
Accounts_new == Accounts(EmptyMap, {})

\* a uniqueness check that matches Deposit only
IsDuplicate_deposit_only(self, tx, transaction) ==
  transaction.kind = "Deposit" /\ tx \in self.transaction_ids

\* an add_transaction without the uniqueness check
IsDuplicate_never(self, tx, transaction) == FALSE

\* a uniqueness check applied to every kind of transaction
IsDuplicate_any_kind(self, tx, transaction) == tx \in self.transaction_ids

\* the uniqueness check of Accounts::add_transaction: a Deposit or Withdrawal
\* whose id HashSet::insert reports as already present
IsDuplicate(self, tx, transaction) ==
  transaction.kind \in {"Deposit", "Withdrawal"} /\ tx \in self.transaction_ids

\* a dedup set that keeps only the id of the last deposit or withdrawal
InsertId_last_only(self, tx, transaction) ==
  IF transaction.kind \in {"Deposit", "Withdrawal"}
  THEN {tx}
  ELSE self.transaction_ids

\* a dedup set that records the ids of deposits only
InsertId_deposit_only(self, tx, transaction) ==
  IF transaction.kind = "Deposit"
  THEN self.transaction_ids \cup {tx}
  ELSE self.transaction_ids

\* a dedup set that records the ids of withdrawals only
InsertId_withdrawal_only(self, tx, transaction) ==
  IF transaction.kind = "Withdrawal"
  THEN self.transaction_ids \cup {tx}
  ELSE self.transaction_ids

\* the dedup set after the call: insert runs only for Deposit and Withdrawal
\* (the right operand of && is evaluated only if the left one is true)
InsertId(self, tx, transaction) ==
  IF transaction.kind \in {"Deposit", "Withdrawal"}
  THEN self.transaction_ids \cup {tx}
  ELSE self.transaction_ids

\* an add_transaction that applies a Dispute, Resolve or Chargeback to every
\* account instead of the addressed one
add_transaction_broadcast(self, client, tx, transaction) ==
  IF IsDuplicate(self, tx, transaction) THEN self
  ELSE LET ids == InsertId(self, tx, transaction)
       IN IF transaction.kind \in {"Dispute", "Resolve", "Chargeback"}
          THEN Accounts([c \in DOMAIN self.user_accounts |->
                           change_account_state(self.user_accounts[c], tx, transaction)],
                        ids)
          ELSE IF client \in DOMAIN self.user_accounts
          THEN Accounts([self.user_accounts EXCEPT
                           ![client] = change_account_state(@, tx, transaction)],
                        ids)
          ELSE LET account == UserAccount_new(tx, transaction)
               IN IF account # None
                  THEN Accounts(MapInsert(self.user_accounts, client, account), ids)
                  ELSE Accounts(self.user_accounts, ids)

\* an add_transaction that sends a Dispute, Resolve or Chargeback to the
\* account whose log holds the id, whoever the addressed client is
add_transaction_by_owner(self, client, tx, transaction) ==
  IF IsDuplicate(self, tx, transaction) THEN self
  ELSE LET ids == InsertId(self, tx, transaction)
           owners == {c \in DOMAIN self.user_accounts :
                        tx \in DOMAIN self.user_accounts[c].transaction_log}
           target == IF transaction.kind \in {"Dispute", "Resolve", "Chargeback"}
                        /\ owners # {}
                     THEN CHOOSE c \in owners : TRUE
                     ELSE client
       IN IF target \in DOMAIN self.user_accounts
          THEN Accounts([self.user_accounts EXCEPT
                           ![target] = change_account_state(@, tx, transaction)],
                        ids)
          ELSE LET account == UserAccount_new(tx, transaction)
               IN IF account # None
                  THEN Accounts(MapInsert(self.user_accounts, target, account), ids)
                  ELSE Accounts(self.user_accounts, ids)

\* ---- Accounts::add_transaction ----
add_transaction(self, client, tx, transaction) ==
  IF IsDuplicate(self, tx, transaction) THEN self
  ELSE LET ids == InsertId(self, tx, transaction)
       IN IF client \in DOMAIN self.user_accounts
          THEN Accounts([self.user_accounts EXCEPT
                           ![client] = change_account_state(@, tx, transaction)],
                        ids)
          ELSE LET account == UserAccount_new(tx, transaction)
               IN IF account # None
                  THEN Accounts(MapInsert(self.user_accounts, client, account), ids)
                  ELSE Accounts(self.user_accounts, ids)

\* ---- Accounts::add_transaction panics instead of returning ----
add_transaction_panics(self, client, tx, transaction) ==
  /\ ~IsDuplicate(self, tx, transaction)
  /\ client \in DOMAIN self.user_accounts
  /\ change_account_state_panics(self.user_accounts[client], tx, transaction)

\* ---- the state of the ledger, and the calls replayed on it ----
Ledger == Accounts(user_accounts, transaction_ids)

\* one record of the input: accounts.add_transaction(client, tx, transaction)
Call(client, tx, transaction) == [client |-> client, tx |-> tx, transaction |-> transaction]

\* the call sequences of the unit tests and of the scenarios of the specification
Script_frozen ==
  <<Call(1, 1, Deposit(100)), Call(1, 1, Dispute), Call(1, 1, Chargeback),
    Call(1, 2, Deposit(100))>>
Script_duplicate == <<Call(1, 1, Deposit(100)), Call(2, 1, Deposit(100))>>
Script_round_trip ==
  <<Call(1, 1, Deposit(100)), Call(1, 2, Withdrawal(100)), Call(1, 2, Dispute),
    Call(1, 2, Resolve)>>
Script_withdrawal_spec ==
  <<Call(1, 1, Deposit(100)), Call(1, 2, Deposit(1000)), Call(1, 3, Withdrawal(1500))>>
Script_withdrawal_test ==
  <<Call(1, 1, Deposit(1000)), Call(1, 2, Deposit(1000)), Call(1, 3, Withdrawal(1500))>>
Script_held ==
  <<Call(1, 1, Deposit(1000)), Call(1, 2, Deposit(1000)), Call(1, 2, Dispute),
    Call(1, 3, Withdrawal(1500))>>
Script_insufficient ==
  <<Call(1, 1, Deposit(100)), Call(1, 2, Withdrawal(1000)), Call(1, 2, Dispute)>>
Script_first ==
  <<Call(1, 1, Deposit(100)), Call(2, 2, Withdrawal(100)), Call(2, 1, Dispute),
    Call(2, 3, Deposit(1000))>>
Script_chargeback ==
  <<Call(1, 1, Deposit(100)), Call(1, 2, Withdrawal(100)), Call(1, 2, Dispute),
    Call(1, 2, Chargeback)>>

Script_wrong_state ==
  <<Call(1, 1, Deposit(100)), Call(1, 1, Dispute), Call(1, 1, Dispute),
    Call(2, 1, Dispute)>>
Script_consumed ==
  <<Call(1, 1, Deposit(100)), Call(1, 2, Withdrawal(1000)), Call(1, 2, Deposit(100)),
    Call(2, 2, Deposit(100))>>
Script_dispute_first ==
  <<Call(1, 1, Dispute), Call(1, 1, Deposit(100)), Call(1, 1, Dispute)>>
Script_isolation ==
  <<Call(1, 1, Deposit(100)), Call(2, 2, Deposit(1000)), Call(2, 1, Dispute),
    Call(2, 1, Withdrawal(100))>>
Script_same_id ==
  <<Call(1, 1, Deposit(100)), Call(1, 1, Deposit(1000)), Call(1, 1, Withdrawal(100))>>
Script_second_chargeback ==
  <<Call(1, 1, Deposit(100)), Call(1, 2, Deposit(1000)), Call(1, 1, Dispute),
    Call(1, 2, Dispute), Call(1, 1, Chargeback), Call(1, 2, Chargeback)>>
Scripts ==
  {Script_frozen, Script_duplicate, Script_round_trip, Script_withdrawal_spec,
   Script_withdrawal_test, Script_held, Script_insufficient, Script_first,
   Script_chargeback, Script_wrong_state, Script_consumed,
   Script_dispute_first, Script_isolation, Script_same_id,
   Script_second_chargeback}

\* trace records the calls replayed since Accounts::new for as long as they
\* follow one of the Scripts; Off once they have left all of them
Off == <<[client |-> 0, tx |-> 0, transaction |-> [kind |-> "Off"]]>>

IsPrefix(s, t) == Len(s) <= Len(t) /\ SubSeq(t, 1, Len(s)) = s

Follow(tr, call) ==
  IF tr # Off /\ \E s \in Scripts : IsPrefix(Append(tr, call), s)
  THEN Append(tr, call)
  ELSE Off

Init ==
  /\ user_accounts = Accounts_new.user_accounts
  /\ transaction_ids = Accounts_new.transaction_ids
  /\ steps = 0
  /\ trace = <<>>
  /\ panicked = FALSE
  /\ solo = [c \in Clients |-> Accounts_new]

\* one iteration of the loop of read_csv: accounts.add_transaction(client, tx,
\* transaction). A panic unwinds through read_csv and main and ends the
\* process: no further record is replayed and the ledger is dropped.
\* The replay is cut after MaxSteps records, except that a replay that follows
\* one of the Scripts is continued to the end of that script.
Step(client, tx, transaction) ==
  LET after == add_transaction(Ledger, client, tx, transaction)
  IN /\ \/ steps < MaxSteps
        \/ Follow(trace, Call(client, tx, transaction)) # Off
     /\ ~panicked
     /\ IF add_transaction_panics(Ledger, client, tx, transaction)
        THEN /\ panicked' = TRUE
             /\ UNCHANGED <<user_accounts, transaction_ids>>
        ELSE /\ panicked' = FALSE
             /\ user_accounts' = after.user_accounts
             /\ transaction_ids' = after.transaction_ids
     /\ steps' = steps + 1
     /\ trace' = Follow(trace, Call(client, tx, transaction))

Apply(client, tx, transaction) == Step(client, tx, transaction) /\ UNCHANGED solo

AddDeposit == \E c \in Clients, tx \in TxIds, a \in Amounts : Apply(c, tx, Deposit(a))
AddWithdrawal == \E c \in Clients, tx \in TxIds, a \in Amounts : Apply(c, tx, Withdrawal(a))
AddDispute == \E c \in Clients, tx \in TxIds : Apply(c, tx, Dispute)
AddResolve == \E c \in Clients, tx \in TxIds : Apply(c, tx, Resolve)
AddChargeback == \E c \in Clients, tx \in TxIds : Apply(c, tx, Chargeback)

Next == AddDeposit \/ AddWithdrawal \/ AddDispute \/ AddResolve \/ AddChargeback

Spec == Init /\ [][Next]_vars

\* the same replay fed amounts that are multiples of 10^20 up to the greatest
\* one a Decimal holds (amounts and balances counted in units of 10^20)
AddBigDeposit ==
  \E c \in Clients, tx \in TxIds, a \in BigAmounts : Apply(c, tx, Deposit(a))
AddBigWithdrawal ==
  \E c \in Clients, tx \in TxIds, a \in BigAmounts : Apply(c, tx, Withdrawal(a))

NextTotal == AddBigDeposit \/ AddBigWithdrawal \/ AddDispute \/ AddResolve \/ AddChargeback

SpecTotal == Init /\ [][NextTotal]_vars

\* the same replay, run next to one fresh ledger per client that receives only
\* the calls addressed to that client, in the same order: solo[c]
SoloStep(client, tx, transaction) ==
  /\ steps < MaxSoloSteps
  /\ Step(client, tx, transaction)
  /\ solo' = [solo EXCEPT ![client] = add_transaction(@, client, tx, transaction)]

SoloDeposit == \E c \in Clients, tx \in TxIds, a \in Amounts : SoloStep(c, tx, Deposit(a))
SoloWithdrawal ==
  \E c \in Clients, tx \in TxIds, a \in Amounts : SoloStep(c, tx, Withdrawal(a))
SoloDispute == \E c \in Clients, tx \in TxIds : SoloStep(c, tx, Dispute)
SoloResolve == \E c \in Clients, tx \in TxIds : SoloStep(c, tx, Resolve)
SoloChargeback == \E c \in Clients, tx \in TxIds : SoloStep(c, tx, Chargeback)

NextSolo == SoloDeposit \/ SoloWithdrawal \/ SoloDispute \/ SoloResolve \/ SoloChargeback

SpecSolo == Init /\ [][NextSolo]_vars

\* ---- what a call does to the ledger it is made on ----
After(client, tx, transaction) == add_transaction(Ledger, client, tx, transaction)

HasAccount(c) == c \in DOMAIN user_accounts

Logged(c, tx) == HasAccount(c) /\ tx \in DOMAIN user_accounts[c].transaction_log

\* C1: terminal lock. Once an account is locked, no step (no add_transaction
\* call of any kind, client or id) changes its available, held, locked flag or
\* transaction log, and the account stays in the ledger.
C1_TerminalLock ==
  [][\A c \in Clients :
       (HasAccount(c) /\ user_accounts[c].locked) =>
          (c \in DOMAIN user_accounts' /\ user_accounts'[c] = user_accounts[c])]_vars

\* a deposit with a fresh id has been sent to client 1 after its chargeback
C1_Witness ==
  /\ trace = Script_frozen
  /\ user_accounts[1].locked
  /\ 2 \in transaction_ids
  /\ 2 \notin DOMAIN user_accounts[1].transaction_log

\* C2: available + held is never negative, for every account in every
\* reachable state.
C2_TotalNeverNegative ==
  \A c \in DOMAIN user_accounts :
     user_accounts[c].available + user_accounts[c].held >= 0

\* C3: a Deposit or Withdrawal carrying an id already in the dedup set, sent
\* to any client (with or without an account), leaves the whole ledger as it
\* was: no account created, no field changed, dedup set unchanged.
C3_DuplicateIdNoOp ==
  \A c \in Clients, tx \in transaction_ids, a \in Amounts :
     /\ After(c, tx, Deposit(a)) = Ledger
     /\ After(c, tx, Withdrawal(a)) = Ledger

\* the deposit of id 1 was replayed for client 2, which has no account
C3_Witness ==
  /\ trace = Script_duplicate
  /\ DOMAIN user_accounts = {1}
  /\ user_accounts[1].available = 100
  /\ transaction_ids = {1}

\* C4: Dispute/Resolve round trip. For every unlocked account and every logged
\* transaction in Resolve state (deposit or withdrawal), Dispute(tx) followed
\* at once by Resolve(tx) gives back the ledger as it was before the Dispute:
\* available, held, locked and the whole log.
C4_DisputeResolveRoundTrip ==
  \A c \in DOMAIN user_accounts :
     \A tx \in DOMAIN user_accounts[c].transaction_log :
        (~user_accounts[c].locked /\ user_accounts[c].transaction_log[tx].state = "Resolve") =>
           LET disputed == After(c, tx, Dispute)
           IN /\ disputed.user_accounts[c].transaction_log[tx].state = "Dispute"
              /\ add_transaction(disputed, c, tx, Resolve) = Ledger

\* the withdrawal of id 2 was disputed, then resolved
C4_Witness ==
  /\ trace = Script_round_trip
  /\ user_accounts[1].available = 0
  /\ user_accounts[1].held = 0
  /\ user_accounts[1].transaction_log[2] = TransactionLog(Withdrawal(100), "Resolve")

\* C5 as stated: Deposit(1,1,100), Deposit(1,2,1000), Withdrawal(1,3,1500)
\* ends with available = 500, held = 0, locked = false.
C5_ScenarioAsStated ==
  trace = Script_withdrawal_spec =>
     /\ user_accounts[1].available = 500
     /\ user_accounts[1].held = 0
     /\ user_accounts[1].locked = FALSE

\* C5 amended: after Deposit(1,1,100), Deposit(1,2,1000), Withdrawal(1,3,1500)
\* the withdrawal is rejected (1100 < 1500): available = 1100, held = 0,
\* locked = false and id 3 is not logged. It is with a first deposit of 1000
\* (the sequence of the unit test) that the account ends at available = 500
\* with the withdrawal logged.
C5_Scenario ==
  /\ trace = Script_withdrawal_spec =>
        /\ user_accounts[1].available = 1100
        /\ user_accounts[1].held = 0
        /\ user_accounts[1].locked = FALSE
        /\ DOMAIN user_accounts[1].transaction_log = {1, 2}
  /\ trace = Script_withdrawal_test =>
        /\ user_accounts[1].available = 500
        /\ user_accounts[1].held = 0
        /\ user_accounts[1].locked = FALSE
        /\ user_accounts[1].transaction_log[3] = TransactionLog(Withdrawal(1500), "Resolve")

\* the three calls of the scenario have been replayed
C5_Witness == trace = Script_withdrawal_spec /\ 3 \in transaction_ids

\* C6: held funds are not withdrawable. A Withdrawal(amount) with a fresh id
\* on an unlocked account takes effect exactly when available >= amount,
\* whatever held is: then available decreases by amount, held is unchanged and
\* the log gains {Withdrawal(amount), Resolve}; otherwise the account is
\* unchanged. After Deposit(1,1,1000), Deposit(1,2,1000), Dispute(1,2),
\* Withdrawal(1,3,1500): available = 1000, held = 1000, id 3 not logged.
C6_HeldNotWithdrawable ==
  /\ \A c \in DOMAIN user_accounts, tx \in TxIds \ transaction_ids, a \in Amounts :
        ~user_accounts[c].locked =>
           LET acc == user_accounts[c]
               new == After(c, tx, Withdrawal(a)).user_accounts[c]
           IN IF acc.available >= a
              THEN /\ new.available = acc.available - a
                   /\ new.held = acc.held
                   /\ new.locked = acc.locked
                   /\ new.transaction_log =
                        MapInsert(acc.transaction_log, tx, TransactionLog(Withdrawal(a), "Resolve"))
              ELSE new = acc
  /\ trace = Script_held =>
        /\ user_accounts[1].available = 1000
        /\ user_accounts[1].held = 1000
        /\ 3 \notin DOMAIN user_accounts[1].transaction_log

\* the withdrawal of 1500 was sent while 1000 was available and 1000 held
C6_Witness ==
  /\ trace = Script_held
  /\ 3 \in transaction_ids
  /\ user_accounts[1].held = 1000

\* C7: a Withdrawal with a fresh id and available < amount is dropped: no
\* account changes (available, held, locked, log), no log entry for the id
\* exists afterwards, and a Dispute, Resolve or Chargeback sent next for that
\* id leaves the ledger unchanged.
C7_InsufficientFundsDropped ==
  \A c \in DOMAIN user_accounts, tx \in TxIds \ transaction_ids, a \in Amounts :
     user_accounts[c].available < a =>
        LET after == After(c, tx, Withdrawal(a))
        IN /\ after.user_accounts = user_accounts
           /\ tx \notin DOMAIN after.user_accounts[c].transaction_log
           /\ \A t \in {Dispute, Resolve, Chargeback} :
                 add_transaction(after, c, tx, t) = after

\* a withdrawal of 1000 from 100 was dropped and then disputed
C7_Witness ==
  /\ trace = Script_insufficient
  /\ user_accounts[1].available = 100
  /\ user_accounts[1].held = 0
  /\ DOMAIN user_accounts[1].transaction_log = {1}
  /\ transaction_ids = {1, 2}

\* C8: an account is created only by a Deposit. For a client with no account,
\* a Deposit(amount) with a fresh id adds exactly that client's account, with
\* available = amount, held = 0, locked = false and the one log entry
\* {Deposit(amount), Resolve}; a Withdrawal, Dispute, Resolve or Chargeback
\* sent to such a client creates no account and changes no account.
C8_OnlyDepositCreates ==
  \A c \in Clients \ DOMAIN user_accounts, tx \in TxIds :
     /\ tx \notin transaction_ids =>
           \A a \in Amounts :
              After(c, tx, Deposit(a)).user_accounts =
                 MapInsert(user_accounts, c,
                           [available |-> a, held |-> 0, locked |-> FALSE,
                            transaction_log |->
                               MapInsert(EmptyMap, tx, TransactionLog(Deposit(a), "Resolve"))])
     /\ \A t \in {Withdrawal(a) : a \in Amounts} \cup {Dispute, Resolve, Chargeback} :
           After(c, tx, t).user_accounts = user_accounts

\* client 2 got a withdrawal and a dispute before its first deposit
C8_Witness ==
  /\ trace = Script_first
  /\ DOMAIN user_accounts = {1, 2}
  /\ user_accounts[1].available = 100
  /\ user_accounts[2] =
        [available |-> 1000, held |-> 0, locked |-> FALSE,
         transaction_log |->
            MapInsert(EmptyMap, 3, TransactionLog(Deposit(1000), "Resolve"))]

\* C9: chargeback rule. On an unlocked account, Chargeback(tx) for an entry in
\* Dispute state, deposit or withdrawal, decreases held by the entry's amount,
\* leaves available unchanged, sets the entry to Chargeback (kind and amount
\* kept) and locks the account. After Deposit(1,1,100), Withdrawal(1,2,100),
\* Dispute(1,2), Chargeback(1,2): available = 0, held = 0, locked = true and
\* entry 2 = {Withdrawal(100), Chargeback}.
C9_ChargebackRule ==
  /\ \A c \in DOMAIN user_accounts :
        \A tx \in DOMAIN user_accounts[c].transaction_log :
           LET acc == user_accounts[c]
               x == acc.transaction_log[tx]
               new == After(c, tx, Chargeback).user_accounts[c]
           IN (~acc.locked /\ x.state = "Dispute") =>
                 /\ new.held = acc.held - x.amount.amount
                 /\ new.available = acc.available
                 /\ new.locked = TRUE
                 /\ new.transaction_log =
                      [acc.transaction_log EXCEPT ![tx] = TransactionLog(x.amount, "Chargeback")]
  /\ trace = Script_chargeback =>
        /\ user_accounts[1].available = 0
        /\ user_accounts[1].held = 0
        /\ user_accounts[1].locked = TRUE
        /\ user_accounts[1].transaction_log[2] = TransactionLog(Withdrawal(100), "Chargeback")

\* the disputed withdrawal of id 2 was charged back
C9_Witness ==
  /\ trace = Script_chargeback
  /\ user_accounts[1].locked
  /\ user_accounts[1].transaction_log[2].state = "Chargeback"

\* C10: dispute rule. On an unlocked account, Dispute(tx) for an entry in
\* Resolve state sets it to Dispute (kind and amount kept); for a Deposit the
\* amount moves from available to held (their sum unchanged), for a
\* Withdrawal only held grows by the amount and available is unchanged.
C10_DisputeRule ==
  \A c \in DOMAIN user_accounts :
     \A tx \in DOMAIN user_accounts[c].transaction_log :
        LET acc == user_accounts[c]
            x == acc.transaction_log[tx]
            new == After(c, tx, Dispute).user_accounts[c]
        IN (~acc.locked /\ x.state = "Resolve") =>
              /\ new.transaction_log =
                   [acc.transaction_log EXCEPT ![tx] = TransactionLog(x.amount, "Dispute")]
              /\ new.locked = acc.locked
              /\ new.held = acc.held + x.amount.amount
              /\ x.amount.kind = "Deposit" =>
                    /\ new.available = acc.available - x.amount.amount
                    /\ new.available + new.held = acc.available + acc.held
              /\ x.amount.kind = "Withdrawal" =>
                    /\ new.available = acc.available
                    /\ new.available + new.held = acc.available + acc.held + x.amount.amount

\* the withdrawal of id 2 was disputed: 100 held, nothing available
C10_Witness ==
  /\ trace = SubSeq(Script_chargeback, 1, 3)
  /\ user_accounts[1].available = 0
  /\ user_accounts[1].held = 100
  /\ user_accounts[1].transaction_log[2] = TransactionLog(Withdrawal(100), "Dispute")

\* C11: dispute lifecycle. In every step, every account stays in the ledger,
\* every logged transaction stays logged with the same kind and amount, and
\* its state either stays or changes by Resolve -> Dispute, Dispute -> Resolve
\* or Dispute -> Chargeback; so a Chargeback entry stays Chargeback forever.
C11_DisputeLifecycle ==
  [][\A c \in Clients :
       HasAccount(c) =>
          /\ c \in DOMAIN user_accounts'
          /\ \A tx \in DOMAIN user_accounts[c].transaction_log :
                /\ tx \in DOMAIN user_accounts'[c].transaction_log
                /\ LET old == user_accounts[c].transaction_log[tx]
                       new == user_accounts'[c].transaction_log[tx]
                   IN /\ new.amount = old.amount
                      /\ \/ new.state = old.state
                         \/ <<old.state, new.state>> \in
                               {<<"Resolve", "Dispute">>, <<"Dispute", "Resolve">>,
                                <<"Dispute", "Chargeback">>}]_vars

\* the deposit of id 1 went Resolve -> Dispute -> Chargeback and a further
\* call was made on its account
C11_Witness ==
  /\ trace = Script_frozen
  /\ user_accounts[1].transaction_log[1] = TransactionLog(Deposit(100), "Chargeback")

\* the state of the entry of tx in the log of client c, "Absent" without one
StateOf(c, tx) ==
  IF Logged(c, tx) THEN user_accounts[c].transaction_log[tx].state ELSE "Absent"

\* C12: wrong-state references are no-ops. A Dispute whose id is absent from
\* the addressed client's log (also when another client's log holds it) or
\* whose entry is not in Resolve state, and a Resolve or Chargeback whose id is
\* absent or whose entry is not in Dispute state, leave the whole ledger
\* unchanged.
C12_WrongStateNoOp ==
  \A c \in Clients, tx \in TxIds :
     /\ StateOf(c, tx) # "Resolve" => After(c, tx, Dispute) = Ledger
     /\ StateOf(c, tx) # "Dispute" =>
           /\ After(c, tx, Resolve) = Ledger
           /\ After(c, tx, Chargeback) = Ledger

\* the deposit of id 1 was disputed twice by client 1 and once by client 2:
\* held is 100, not 200
C12_Witness ==
  /\ trace = Script_wrong_state
  /\ DOMAIN user_accounts = {1}
  /\ user_accounts[1].available = 0
  /\ user_accounts[1].held = 100
  /\ user_accounts[1].transaction_log[1] = TransactionLog(Deposit(100), "Dispute")

\* the ids that some account's log holds
LoggedIds ==
  UNION {DOMAIN user_accounts[c].transaction_log : c \in DOMAIN user_accounts}

\* C13: a Deposit or Withdrawal with a fresh id puts the id in the dedup set
\* whatever it does to the accounts (nothing, for an insufficient-funds
\* withdrawal, a withdrawal to a client without an account, or any of the two
\* to a locked account), and a Deposit or Withdrawal that reuses an id
\* consumed without a log entry is ignored, for every client.
C13_FreshIdConsumed ==
  /\ \A c \in Clients, tx \in TxIds \ transaction_ids, a \in Amounts :
        \A t \in {Deposit(a), Withdrawal(a)} :
           After(c, tx, t).transaction_ids = transaction_ids \cup {tx}
  /\ \A tx \in transaction_ids \ LoggedIds, c \in Clients, a \in Amounts :
        \A t \in {Deposit(a), Withdrawal(a)} :
           After(c, tx, t) = Ledger

\* id 2 was consumed by a withdrawal dropped for insufficient funds; the two
\* deposits that reused it, for client 1 and for client 2, were ignored
C13_Witness ==
  /\ trace = Script_consumed
  /\ transaction_ids = {1, 2}
  /\ DOMAIN user_accounts = {1}
  /\ user_accounts[1].available = 100
  /\ DOMAIN user_accounts[1].transaction_log = {1}

\* C14: Dispute, Resolve and Chargeback are outside the uniqueness check.
\* None of them changes the dedup set; with an id no Deposit or Withdrawal has
\* used they leave the whole ledger unchanged, so that a Deposit with that id
\* sent next, to any client, runs on the same ledger: it consumes the id and
\* is logged (unless the client's account is locked); with an id that is in
\* the dedup set they are not rejected: they act on an entry in the state
\* they expect.
C14_ReferencesNotDeduplicated ==
  /\ \A c \in Clients, tx \in TxIds :
        \A t \in {Dispute, Resolve, Chargeback} :
           LET after == After(c, tx, t)
           IN /\ after.transaction_ids = transaction_ids
              /\ tx \notin transaction_ids => after = Ledger
  /\ \A tx \in TxIds \ transaction_ids, c2 \in Clients, a \in Amounts :
        LET dep == After(c2, tx, Deposit(a))
        IN /\ tx \in dep.transaction_ids
           /\ (HasAccount(c2) => ~user_accounts[c2].locked) =>
                 /\ c2 \in DOMAIN dep.user_accounts
                 /\ tx \in DOMAIN dep.user_accounts[c2].transaction_log
                 /\ dep.user_accounts[c2].transaction_log[tx] =
                      TransactionLog(Deposit(a), "Resolve")
  /\ \A c \in DOMAIN user_accounts :
        \A tx \in DOMAIN user_accounts[c].transaction_log \cap transaction_ids :
           ~user_accounts[c].locked =>
              /\ StateOf(c, tx) = "Resolve" => After(c, tx, Dispute) # Ledger
              /\ StateOf(c, tx) = "Dispute" =>
                    /\ After(c, tx, Resolve) # Ledger
                    /\ After(c, tx, Chargeback) # Ledger

\* a Dispute of the unused id 1 came first; the Deposit with id 1 was then
\* applied, and the Dispute of the now consumed id 1 took effect
C14_Witness ==
  /\ trace = Script_dispute_first
  /\ transaction_ids = {1}
  /\ user_accounts[1].available = 0
  /\ user_accounts[1].held = 100
  /\ user_accounts[1].transaction_log[1] = TransactionLog(Deposit(100), "Dispute")

\* C15: the core is total. No add_transaction call, of any kind, client,
\* id and representable non-negative amount, made on a reachable ledger
\* panics.
C15_NeverPanics == ~panicked

\* every transaction the input can carry
Transactions ==
  {Deposit(a) : a \in Amounts} \cup {Withdrawal(a) : a \in Amounts}
     \cup {Dispute, Resolve, Chargeback}

\* C16: account isolation. A call addressed to client c, of any kind and with
\* any id (also one logged in another client's account), leaves every other
\* client's account in the ledger with the same available, held, locked flag
\* and log.
C16_AccountIsolation ==
  \A c \in Clients, tx \in TxIds, t \in Transactions :
     LET after == After(c, tx, t).user_accounts
     IN \A c2 \in DOMAIN user_accounts \ {c} :
           /\ c2 \in DOMAIN after
           /\ after[c2] = user_accounts[c2]

\* client 2 disputed id 1 and reused it for a withdrawal: the account of
\* client 1, whose log holds id 1, is as its deposit left it
C16_Witness ==
  /\ trace = Script_isolation
  /\ user_accounts[1] =
        [available |-> 100, held |-> 0, locked |-> FALSE,
         transaction_log |-> MapInsert(EmptyMap, 1, TransactionLog(Deposit(100), "Resolve"))]
  /\ user_accounts[2].available = 1000

\* client c's account in the ledger is what replaying only c's calls gives
SameAsSolo(c) ==
  /\ HasAccount(c) <=> c \in DOMAIN solo[c].user_accounts
  /\ HasAccount(c) => user_accounts[c] = solo[c].user_accounts[c]

\* no id was carried by Deposits or Withdrawals addressed to two clients
NoSharedIds ==
  \A c1 \in Clients, c2 \in Clients :
     c1 # c2 => solo[c1].transaction_ids \cap solo[c2].transaction_ids = {}

\* C17 as stated: for every client c and every sequence, c's account after
\* the whole sequence equals c's account after replaying only the calls
\* addressed to c on a fresh ledger.
C17_ProjectionAsStated == \A c \in Clients : SameAsSolo(c)

\* C17 amended: the same, for every sequence in which no transaction id is
\* carried by Deposits or Withdrawals addressed to two different clients (the
\* dedup set is shared by all clients, so a Deposit or Withdrawal is dropped
\* when another client consumed its id before).
C17_Projection == NoSharedIds => \A c \in Clients : SameAsSolo(c)

\* two clients have deposited under ids of their own and client 2 has
\* disputed the id of client 1
C17_Witness ==
  /\ trace = SubSeq(Script_isolation, 1, 3)
  /\ NoSharedIds
  /\ DOMAIN user_accounts = {1, 2}
  /\ solo[1].transaction_ids = {1}
  /\ solo[2].transaction_ids = {2}
  /\ solo[1].user_accounts[1] = user_accounts[1]

\* C18: a log entry is never overwritten. No Deposit or Withdrawal carrying
\* an id that the addressed account's log already holds reaches the insert
\* into that log: the call leaves the account, entry and balances, as it was.
C18_NoOverwrite ==
  \A c \in DOMAIN user_accounts :
     \A tx \in DOMAIN user_accounts[c].transaction_log, a \in Amounts :
        \A t \in {Deposit(a), Withdrawal(a)} :
           After(c, tx, t).user_accounts[c] = user_accounts[c]

\* a deposit of 1000 and a withdrawal of 100 reused id 1 on the account that
\* logs it: the entry is still the deposit of 100
C18_Witness ==
  /\ trace = Script_same_id
  /\ user_accounts[1].available = 100
  /\ user_accounts[1].transaction_log =
        MapInsert(EmptyMap, 1, TransactionLog(Deposit(100), "Resolve"))

\* the sum of f over the keys in S
RECURSIVE Sum(_, _)
Sum(f, S) ==
  IF S = {} THEN 0
  ELSE LET x == CHOOSE y \in S : TRUE
       IN f[x] + Sum(f, S \ {x})

\* what a log entry contributes to available: a deposit its amount while it is
\* in Resolve state, a withdrawal minus its amount in every state
AvailableEffect(x) ==
  IF x.amount.kind = "Deposit"
  THEN IF x.state = "Resolve" THEN x.amount.amount ELSE 0
  ELSE 0 - x.amount.amount

\* what a log entry contributes to available + held: a deposit its amount
\* until it is charged back, a withdrawal minus its amount unless under dispute
TotalEffect(x) ==
  IF x.amount.kind = "Deposit"
  THEN IF x.state = "Chargeback" THEN 0 ELSE x.amount.amount
  ELSE IF x.state = "Dispute" THEN 0 ELSE 0 - x.amount.amount

\* C19: for every account in every reachable state, available is the sum of
\* the amounts of its logged deposits in Resolve state minus the sum of the
\* amounts of all its logged withdrawals, and available + held is the net of
\* the effects of its log entries.
C19_AvailableFromLog ==
  \A c \in DOMAIN user_accounts :
     LET acc == user_accounts[c]
         log == acc.transaction_log
     IN /\ acc.available = Sum([tx \in DOMAIN log |-> AvailableEffect(log[tx])], DOMAIN log)
        /\ acc.available + acc.held =
              Sum([tx \in DOMAIN log |-> TotalEffect(log[tx])], DOMAIN log)

\* a deposit of 100 in Resolve state and a charged-back withdrawal of 100
C19_Witness ==
  /\ trace = Script_chargeback
  /\ DOMAIN user_accounts[1].transaction_log = {1, 2}
  /\ user_accounts[1].available = 0
  /\ user_accounts[1].available + user_accounts[1].held = 0

\* C20: the set of accounts and the dedup set only grow. In every step every
\* client that has an account keeps one and every consumed id stays consumed.
C20_OnlyGrow ==
  [][/\ DOMAIN user_accounts \subseteq DOMAIN user_accounts'
     /\ transaction_ids \subseteq transaction_ids']_vars

\* two accounts and three consumed ids after four calls, two of which were
\* dropped
C20_Witness ==
  /\ trace = Script_first
  /\ steps = 4
  /\ DOMAIN user_accounts = {1, 2}
  /\ transaction_ids = {1, 2, 3}


\* what a log entry contributes to held: its amount while it is in Dispute
\* state, whether it records a deposit or a withdrawal
HeldEffect(x) == IF x.state = "Dispute" THEN x.amount.amount ELSE 0

\* the ids of the entries of account c that are in the given state
EntriesIn(c, state) ==
  {tx \in DOMAIN user_accounts[c].transaction_log :
      user_accounts[c].transaction_log[tx].state = state}

\* C21: for every account in every reachable state, held is the sum of the
\* amounts of its log entries in Dispute state, deposits and withdrawals
\* alike; so held is never negative and is 0 when no entry is in Dispute state.
C21_HeldFromLog ==
  \A c \in DOMAIN user_accounts :
     LET acc == user_accounts[c]
         log == acc.transaction_log
     IN /\ acc.held = Sum([tx \in DOMAIN log |-> HeldEffect(log[tx])], DOMAIN log)
        /\ acc.held >= 0
        /\ EntriesIn(c, "Dispute") = {} => acc.held = 0

\* an account holding a disputed deposit and a disputed withdrawal at once
C21_Witness ==
  \E c \in DOMAIN user_accounts :
     LET log == user_accounts[c].transaction_log
     IN /\ \E d, w \in EntriesIn(c, "Dispute") :
              /\ log[d].amount.kind = "Deposit"
              /\ log[w].amount.kind = "Withdrawal"
              /\ user_accounts[c].held = log[d].amount.amount + log[w].amount.amount


\* the ids of the entries in the given state in the log of client c in ledger l
EntriesOf(l, c, state) ==
  {tx \in DOMAIN l.user_accounts[c].transaction_log :
      l.user_accounts[c].transaction_log[tx].state = state}

\* C22: in every reachable state an account is locked exactly when its log
\* holds an entry in Chargeback state, and no log holds more than one such
\* entry: a Chargeback sent to a locked account changes nothing, and of two
\* entries under dispute in one account, charging back the first locks the
\* account and the Chargeback of the second is then dropped, leaving the
\* second under dispute.
C22_LockedIffChargedBack ==
  \A c \in DOMAIN user_accounts :
     /\ user_accounts[c].locked <=> EntriesIn(c, "Chargeback") # {}
     /\ Cardinality(EntriesIn(c, "Chargeback")) <= 1
     /\ user_accounts[c].locked =>
           \A tx \in TxIds : After(c, tx, Chargeback) = Ledger
     /\ \A tx1, tx2 \in EntriesIn(c, "Dispute") :
           (tx1 # tx2 /\ ~user_accounts[c].locked) =>
              LET first == After(c, tx1, Chargeback)
                  second == add_transaction(first, c, tx2, Chargeback)
              IN /\ first.user_accounts[c].locked
                 /\ second = first
                 /\ EntriesOf(second, c, "Chargeback") = {tx1}
                 /\ tx2 \in EntriesOf(second, c, "Dispute")

\* two deposits were disputed, the first was charged back and a Chargeback of
\* the second was then sent: the account is locked with one entry charged
\* back and the other still under dispute
C22_Witness ==
  /\ trace = Script_second_chargeback
  /\ user_accounts[1].locked
  /\ EntriesIn(1, "Chargeback") = {1}
  /\ EntriesIn(1, "Dispute") = {2}
  /\ user_accounts[1].held = 1000


\* C23: in every reachable state every transaction id found in an account's
\* log is in the dedup set, and no transaction id is found in the logs of two
\* different accounts.
C23_LoggedIdsUnique ==
  /\ \A c \in DOMAIN user_accounts :
        DOMAIN user_accounts[c].transaction_log \subseteq transaction_ids
  /\ \A c1, c2 \in DOMAIN user_accounts :
        c1 # c2 =>
           DOMAIN user_accounts[c1].transaction_log
              \cap DOMAIN user_accounts[c2].transaction_log = {}

\* two accounts with entries in their logs, and an id in the dedup set that a
\* dropped withdrawal consumed without logging it
C23_Witness ==
  \E c1, c2 \in DOMAIN user_accounts :
     /\ c1 # c2
     /\ DOMAIN user_accounts[c1].transaction_log # {}
     /\ DOMAIN user_accounts[c2].transaction_log # {}
     /\ \E tx \in transaction_ids :
           \A c \in DOMAIN user_accounts : tx \notin DOMAIN user_accounts[c].transaction_log

====
